---- MODULE Spec2Model ----
(***************************************************************************)
(* Model of the hash-prefix spoofing tool (image-spoofer.py and            *)
(* image-spooferv2.py): main() validates the target prefix, the            *)
(* coordinator modify_metadata_with_multiprocessing starts one             *)
(* simulated_annealing_attempt per seed in a multiprocessing.Pool, every   *)
(* worker saves each proposal to the one output path and hashes the file   *)
(* it reads back, and the coordinator returns on the first truthy result.  *)
(*                                                                         *)
(* Abstractions: a digest is DigestLen hex characters of a fixed injective *)
(* table over file contents; random is a linear congruential stream that   *)
(* is a function of the seed; a temperature is a fixed-point number whose  *)
(* repeated cooling underflows to 0 as the float does; exp is a table.     *)
(***************************************************************************)
EXTENDS Integers, Sequences, FiniteSets, TLC

VARIABLES
    args,       \* the parsed command line: variant, target_prefix, max_attempts, num_workers, initial_temp
    mpc,        \* where main() / the coordinator is
    results,    \* the pool's result queue, in completion order
    collected,  \* results the coordinator's for loop has consumed
    result,     \* the dict the coordinator returned, if it did
    wk,         \* per task (seed): the locals of simulated_annealing_attempt, and its history:
                \* cooled (cooling steps applied), late (attempts begun after another task
                \* had succeeded), killed_at (where pool.terminate() stopped it)
    heap,       \* per task: the inner exif_dict["Exif"] dict objects, by reference
    outfile,    \* the bytes at output_path, shared by all workers
    writes,     \* history: completed writes of output_path
    faults,     \* environment failures injected so far
    trace       \* history: per task, the decisions it took

vars == <<args, mpc, results, collected, result, wk, heap, outfile, writes, faults, trace>>

----------------------------------------------------------------------------
(* Bounds of the model *)

MaxWorkers == 2
MaxAttempts == 4
MaxChange == 3
MaxFaults == 1

(* The file contents that occur *)
InputBytes == 0
PartialBytes == -1
AbsentBytes == -2
NoComment == 0

Workers == 0 .. (MaxWorkers - 1)

HexDigits == <<"0", "1", "2", "3", "4", "5", "6", "7", "8", "9", "a", "b", "c", "d", "e", "f">>

TargetPrefixes ==
    { <<>>, <<"a">>, <<"f">>, <<"F">>, <<"g">>, <<"f", "a">>, <<"4", "0">>, <<"a", "1">>,
      <<"a", "4">> }

InitialTemps == {0, 8}

CoolingRate == <<1, 2>>

----------------------------------------------------------------------------
(* Pure functions *)

\* str.lower() on one character
Lower(c) ==
    CASE c = "A" -> "a" [] c = "B" -> "b" [] c = "C" -> "c"
      [] c = "D" -> "d" [] c = "E" -> "e" [] c = "F" -> "f"
      [] OTHER -> c

LowerStr(s) == [i \in 1 .. Len(s) |-> Lower(s[i])]

IsHexChar(c) == \E i \in 1 .. Len(HexDigits) : HexDigits[i] = c

\* main's validation: all(c in "0123456789abcdef" for c in target_prefix.lower())
ValidPrefix(p) == \A i \in 1 .. Len(p) : IsHexChar(Lower(p[i]))

\* the file image.save writes for a UserComment: 0 is the initial comment,
\* k + 1 is b"Attempt k"
Saved(comment) == comment + 1

AttemptComment(random_change) == random_change + 1

\* hashlib's hexdigest of the file's bytes: lower-case hex, distinct for distinct contents
Digest(content) ==
    << HexDigits[(((content \div 2) * 5 + 10) % 16) + 1],
       HexDigits[((content * 3 + 1) % 16) + 1] >>

\* str.startswith
StartsWith(h, p) == Len(p) <= Len(h) /\ SubSeq(h, 1, Len(p)) = p

Min(a, b) == IF a <= b THEN a ELSE b

RECURSIVE MatchFrom(_, _, _)
MatchFrom(h, p, i) ==
    IF i > Min(Len(h), Len(p)) THEN i - 1
    ELSE IF h[i] = p[i] THEN MatchFrom(h, p, i + 1)
    ELSE i - 1

hash_similarity(current_hash, target_prefix) == MatchFrom(current_hash, target_prefix, 1)

\* random: the generator's state after random.seed(seed), and after each draw
rng_seed(seed) == (seed * 29 + 5) % 64

RngNext(s) == (s * 13 + 7) % 64

\* random.randint(0, 1000), scaled to 0 .. MaxChange
RandInt(s) == (s \div 4) % (MaxChange + 1)

\* random.random(), in hundredths: 0 .. 99
RandPct(s) == (s * 100) \div 64

\* floor(100 * math.exp(-d / t)) for d > 0, t > 0
ExpPct(d, t) ==
    CASE d * 8 = t -> 88
      [] d * 4 = t -> 77
      [] d * 2 = t -> 60
      [] d = t -> 36
      [] d = 2 * t -> 13

\* acceptance_probability of image-spoofer.py: divides by the temperature itself
acceptance_probability_v1(temperature, new_similarity, old_similarity) ==
    IF new_similarity > old_similarity THEN [raised |-> FALSE, pct |-> 100]
    ELSE IF temperature = 0 THEN [raised |-> TRUE, pct |-> 0]
    ELSE IF new_similarity = old_similarity THEN [raised |-> FALSE, pct |-> 100]
    ELSE [raised |-> FALSE, pct |-> ExpPct(old_similarity - new_similarity, temperature)]

\* acceptance_probability of image-spooferv2.py: divides by max(temperature, 1e-10);
\* at the floor exp(-d / 1e-10) is 0.0 for d > 0
acceptance_probability_v2(temperature, new_similarity, old_similarity) ==
    IF new_similarity > old_similarity THEN [raised |-> FALSE, pct |-> 100]
    ELSE IF new_similarity = old_similarity THEN [raised |-> FALSE, pct |-> 100]
    ELSE IF temperature = 0 THEN [raised |-> FALSE, pct |-> 0]
    ELSE [raised |-> FALSE, pct |-> ExpPct(old_similarity - new_similarity, temperature)]

acceptance_probability(variant, temperature, new_similarity, old_similarity) ==
    IF variant = 1
    THEN acceptance_probability_v1(temperature, new_similarity, old_similarity)
    ELSE acceptance_probability_v2(temperature, new_similarity, old_similarity)

\* current_temp *= cooling_rate
Cool(temperature) == (temperature * CoolingRate[1]) \div CoolingRate[2]

\* dict.copy(): a shallow copy, the copy's "Exif" entry is the same inner dict object
DictRefs == {"exif", "copy"}

dict_copy(h, d) == [heap |-> h, dict |-> d]

\* piexif.dump(d) + image.save: the bytes written for dict d
Serialize(h, d) == Saved(h[d.Exif])

\* max_attempts // num_workers
Budget == args.max_attempts \div args.num_workers

Active == { w \in Workers : w < args.num_workers }

----------------------------------------------------------------------------
(* State *)

NoHash == <<>>

NoResult ==
    [present |-> FALSE, original_hash |-> NoHash, modified_hash |-> NoHash, is_modified |-> FALSE]

IdleWorker ==
    [pc |-> "idle", rng |-> 0, original_hash |-> NoHash, exif_dict |-> [Exif |-> "exif"],
     current_temp |-> 0, best_hash |-> NoHash, best_metadata |-> [Exif |-> "exif"],
     attempt |-> 0, modified_hash |-> NoHash,
     cooled |-> 0, late |-> 0, killed_at |-> "none"]

Init ==
    /\ args \in [variant : {1, 2},
                 target_prefix : TargetPrefixes,
                 max_attempts : 0 .. MaxAttempts,
                 num_workers : 1 .. MaxWorkers,
                 initial_temp : InitialTemps]
    /\ mpc = "main"
    /\ results = <<>>
    /\ collected = 0
    /\ result = NoResult
    /\ wk = [w \in Workers |-> IdleWorker]
    /\ heap = [w \in Workers |-> [r \in DictRefs |-> NoComment]]
    /\ outfile = AbsentBytes
    /\ writes = 0
    /\ faults = 0
    /\ trace = [w \in Workers |-> <<>>]

Running(w) == wk[w].pc \in {"idle", "loop", "saving", "saved", "restoring"}

\* history: 1 when task w begins an attempt while another task has already returned a digest
LateStart(w) == IF \E v \in Workers : v # w /\ wk[v].pc = "success" THEN 1 ELSE 0

\* a task's return value or exception reaches the coordinator through the result queue
Put(w, kind, value) == Append(results, [w |-> w, kind |-> kind, value |-> value])

Log(w, cand, digest, decision) ==
    [trace EXCEPT ![w] = Append(@, [cand |-> cand, digest |-> digest, decision |-> decision])]

----------------------------------------------------------------------------
(* main *)

\* main: the prefix fails validation, the error is printed and main returns
MainReject ==
    /\ mpc = "main"
    /\ ~ValidPrefix(args.target_prefix)
    /\ mpc' = "rejected"
    /\ UNCHANGED <<args, results, collected, result, wk, heap, outfile, writes, faults, trace>>

\* main: the prefix passes validation; modify_metadata_with_multiprocessing builds
\* the tasks and opens the pool
MainStart ==
    /\ mpc = "main"
    /\ ValidPrefix(args.target_prefix)
    /\ mpc' = "pool"
    /\ UNCHANGED <<args, results, collected, result, wk, heap, outfile, writes, faults, trace>>

----------------------------------------------------------------------------
(* simulated_annealing_attempt, one task per seed w *)

\* lines 23-39: seed the generator, hash and load the input, set up the search
WorkerStart(w) ==
    /\ mpc = "pool"
    /\ w \in Active
    /\ wk[w].pc = "idle"
    /\ LET h == [heap[w] EXCEPT !["exif"] = NoComment]
           c == dict_copy(h, [Exif |-> "exif"])
       IN /\ heap' = [heap EXCEPT ![w] = c.heap]
          /\ wk' = [wk EXCEPT ![w] =
                       [pc |-> "loop",
                        rng |-> rng_seed(w),
                        original_hash |-> Digest(InputBytes),
                        exif_dict |-> [Exif |-> "exif"],
                        current_temp |-> args.initial_temp,
                        best_hash |-> Digest(InputBytes),
                        best_metadata |-> c.dict,
                        attempt |-> 0,
                        modified_hash |-> NoHash,
                        cooled |-> 0, late |-> 0, killed_at |-> "none"]]
    /\ UNCHANGED <<args, mpc, results, collected, result, outfile, writes, faults, trace>>

\* Image.open / piexif.load fails: v1 lets the exception leave the task, v2
\* prints it and returns None
LoadFail(w) ==
    /\ mpc = "pool"
    /\ w \in Active
    /\ wk[w].pc = "idle"
    /\ faults < MaxFaults
    /\ faults' = faults + 1
    /\ IF args.variant = 1
       THEN /\ wk' = [wk EXCEPT ![w].pc = "raised"]
            /\ results' = Put(w, "exc", NoHash)
       ELSE /\ wk' = [wk EXCEPT ![w].pc = "exhausted"]
            /\ results' = Put(w, "none", NoHash)
    /\ UNCHANGED <<args, mpc, collected, result, heap, outfile, writes, trace>>

\* loop head with attempts left: draw random_change, rewrite the UserComment in
\* place, and image.save opens (truncates) the output path
BeginAttempt(w) ==
    /\ mpc = "pool"
    /\ wk[w].pc = "loop"
    /\ wk[w].attempt < Budget
    /\ LET s == RngNext(wk[w].rng)
       IN /\ heap' = [heap EXCEPT ![w][wk[w].exif_dict.Exif] = AttemptComment(RandInt(s))]
          /\ wk' = [wk EXCEPT ![w].rng = s, ![w].pc = "saving",
                               ![w].late = @ + LateStart(w)]
    /\ outfile' = PartialBytes
    /\ UNCHANGED <<args, mpc, results, collected, result, writes, faults, trace>>

\* image.save fails in the loop: v1 lets the exception leave the task, v2 prints
\* it and continues with the next attempt (no cooling)
SaveFail(w) ==
    /\ mpc = "pool"
    /\ wk[w].pc = "loop"
    /\ wk[w].attempt < Budget
    /\ faults < MaxFaults
    /\ faults' = faults + 1
    /\ LET s == RngNext(wk[w].rng)
           c == AttemptComment(RandInt(s))
       IN /\ heap' = [heap EXCEPT ![w][wk[w].exif_dict.Exif] = c]
          /\ trace' = Log(w, c, NoHash, "error")
          /\ IF args.variant = 1
             THEN /\ wk' = [wk EXCEPT ![w].rng = s, ![w].pc = "raised",
                                      ![w].late = @ + LateStart(w)]
                  /\ results' = Put(w, "exc", NoHash)
             ELSE /\ wk' = [wk EXCEPT ![w].rng = s, ![w].attempt = @ + 1,
                                      ![w].late = @ + LateStart(w)]
                  /\ results' = results
    /\ UNCHANGED <<args, mpc, collected, result, outfile, writes>>

\* image.save finishes writing the proposal to the output path
FinishSave(w) ==
    /\ mpc = "pool"
    /\ wk[w].pc = "saving"
    /\ outfile' = Serialize(heap[w], wk[w].exif_dict)
    /\ writes' = writes + 1
    /\ wk' = [wk EXCEPT ![w].pc = "saved"]
    /\ UNCHANGED <<args, mpc, results, collected, result, heap, faults, trace>>

\* line 54: if modified_hash.startswith(target_prefix)
IsMatch(modified_hash, target_prefix) == StartsWith(modified_hash, target_prefix)

\* line 62: current_similarity > best_similarity or random.random() < acceptance_probability(...)
\* The draw is made only when the left operand is false.
Acceptance(variant, st, current_similarity, best_similarity) ==
    IF current_similarity > best_similarity
    THEN [rng |-> st.rng, raised |-> FALSE, accept |-> TRUE]
    ELSE LET s == RngNext(st.rng)
             ap == acceptance_probability(variant, st.current_temp,
                                          current_similarity, best_similarity)
         IN [rng |-> s, raised |-> ap.raised, accept |-> (~ap.raised /\ RandPct(s) < ap.pct)]

\* a loop body that records every scored digest as the best, rejected ones too
AfterHash_RecordsRejected(variant, target_prefix, st, h, modified_hash) ==
    IF IsMatch(modified_hash, target_prefix)
    THEN [st |-> [st EXCEPT !.pc = "success", !.modified_hash = modified_hash],
          heap |-> h, decision |-> "match"]
    ELSE LET a == Acceptance(variant, st,
                             hash_similarity(modified_hash, target_prefix),
                             hash_similarity(st.best_hash, target_prefix))
             c == dict_copy(h, st.exif_dict)
         IN IF a.raised
            THEN [st |-> [st EXCEPT !.pc = "raised", !.rng = a.rng,
                                    !.modified_hash = modified_hash],
                  heap |-> h, decision |-> "raise"]
            ELSE [st |-> [st EXCEPT !.pc = "loop", !.rng = a.rng,
                                    !.modified_hash = modified_hash,
                                    !.best_hash = modified_hash,
                                    !.best_metadata = c.dict,
                                    !.current_temp = Cool(@),
                                    !.cooled = @ + 1,
                                    !.attempt = @ + 1],
                  heap |-> c.heap,
                  decision |-> IF a.accept THEN "accept" ELSE "reject"]

\* lines 53-67: what one loop iteration does with the digest it read back.
\* st is the task's locals, h its inner dicts.
AfterHash(variant, target_prefix, st, h, modified_hash) ==
    IF IsMatch(modified_hash, target_prefix)
    THEN [st |-> [st EXCEPT !.pc = "success", !.modified_hash = modified_hash],
          heap |-> h, decision |-> "match"]
    ELSE LET current_similarity == hash_similarity(modified_hash, target_prefix)
             best_similarity == hash_similarity(st.best_hash, target_prefix)
             a == Acceptance(variant, st, current_similarity, best_similarity)
             c == dict_copy(h, st.exif_dict)
         IN IF a.raised
            THEN [st |-> [st EXCEPT !.pc = "raised", !.rng = a.rng,
                                    !.modified_hash = modified_hash],
                  heap |-> h, decision |-> "raise"]
            ELSE IF a.accept
            THEN [st |-> [st EXCEPT !.pc = "loop", !.rng = a.rng,
                                    !.modified_hash = modified_hash,
                                    !.best_hash = modified_hash,
                                    !.best_metadata = c.dict,
                                    !.current_temp = Cool(@),
                                    !.cooled = @ + 1,
                                    !.attempt = @ + 1],
                  heap |-> c.heap, decision |-> "accept"]
            ELSE [st |-> [st EXCEPT !.pc = "loop", !.rng = a.rng,
                                    !.modified_hash = modified_hash,
                                    !.current_temp = Cool(@),
                                    !.cooled = @ + 1,
                                    !.attempt = @ + 1],
                  heap |-> h, decision |-> "reject"]

\* lines 51-67: calculate_file_hash(output_path) reads whatever the output path
\* holds now, then the match test, the acceptance rule and the cooling
ReadHash(w) ==
    /\ mpc = "pool"
    /\ wk[w].pc = "saved"
    /\ LET modified_hash == Digest(outfile)
           r == AfterHash(args.variant, args.target_prefix, wk[w], heap[w], modified_hash)
       IN /\ wk' = [wk EXCEPT ![w] = r.st]
          /\ heap' = [heap EXCEPT ![w] = r.heap]
          /\ trace' = Log(w, heap[w][wk[w].exif_dict.Exif], modified_hash, r.decision)
          /\ results' = CASE r.decision = "match" -> Put(w, "hash", modified_hash)
                          [] r.decision = "raise" -> Put(w, "exc", NoHash)
                          [] OTHER -> results
    /\ UNCHANGED <<args, mpc, collected, result, outfile, writes, faults>>

\* calculate_file_hash(output_path) fails (open or read): neither variant catches it
ReadFail(w) ==
    /\ mpc = "pool"
    /\ wk[w].pc = "saved"
    /\ faults < MaxFaults
    /\ faults' = faults + 1
    /\ wk' = [wk EXCEPT ![w].pc = "raised"]
    /\ results' = Put(w, "exc", NoHash)
    /\ trace' = Log(w, heap[w][wk[w].exif_dict.Exif], NoHash, "error")
    /\ UNCHANGED <<args, mpc, collected, result, heap, outfile, writes>>

\* lines 69-71, loop over: image.save opens (truncates) the output path to
\* restore the best metadata
BeginRestore(w) ==
    /\ mpc = "pool"
    /\ wk[w].pc = "loop"
    /\ wk[w].attempt >= Budget
    /\ outfile' = PartialBytes
    /\ wk' = [wk EXCEPT ![w].pc = "restoring"]
    /\ UNCHANGED <<args, mpc, results, collected, result, heap, writes, faults, trace>>

\* the restoring save fails: v1 lets the exception leave the task, v2 prints it
\* and returns None
RestoreFail(w) ==
    /\ mpc = "pool"
    /\ wk[w].pc = "loop"
    /\ wk[w].attempt >= Budget
    /\ faults < MaxFaults
    /\ faults' = faults + 1
    /\ IF args.variant = 1
       THEN /\ wk' = [wk EXCEPT ![w].pc = "raised"]
            /\ results' = Put(w, "exc", NoHash)
       ELSE /\ wk' = [wk EXCEPT ![w].pc = "exhausted"]
            /\ results' = Put(w, "none", NoHash)
    /\ UNCHANGED <<args, mpc, collected, result, heap, outfile, writes, trace>>

\* lines 70-73: the best metadata is written to the output path; return None
FinishRestore(w) ==
    /\ mpc = "pool"
    /\ wk[w].pc = "restoring"
    /\ outfile' = Serialize(heap[w], wk[w].best_metadata)
    /\ writes' = writes + 1
    /\ wk' = [wk EXCEPT ![w].pc = "exhausted"]
    /\ results' = Put(w, "none", NoHash)
    /\ UNCHANGED <<args, mpc, collected, result, heap, faults, trace>>

----------------------------------------------------------------------------
(* modify_metadata_with_multiprocessing: the loop over pool.imap_unordered *)

\* a coordinator that returns on every result, None included
Truthy_AnyResult(r) == TRUE

\* if result: a non-empty string
Truthy(r) == r.kind = "hash" /\ r.value # NoHash

\* leaving the with block calls pool.terminate(): tasks still running are killed
Terminate == [w \in Workers |-> IF w \in Active /\ Running(w)
                                THEN [wk[w] EXCEPT !.pc = "killed", !.killed_at = wk[w].pc]
                                ELSE wk[w]]

\* the next result in completion order is a digest: return the result dict
CollectSuccess ==
    /\ mpc = "pool"
    /\ results # <<>>
    /\ Head(results).kind # "exc"
    /\ Truthy(Head(results))
    /\ result' = [present |-> TRUE,
                  original_hash |-> Digest(InputBytes),
                  modified_hash |-> Head(results).value,
                  is_modified |-> (Digest(InputBytes) # Head(results).value)]
    /\ mpc' = "returned"
    /\ results' = Tail(results)
    /\ collected' = collected + 1
    /\ wk' = Terminate
    /\ UNCHANGED <<args, heap, outfile, writes, faults, trace>>

\* the next result is None: keep iterating; after the last task's result the
\* loop ends and ValueError is raised (main prints it)
CollectNone ==
    /\ mpc = "pool"
    /\ results # <<>>
    /\ Head(results).kind # "exc"
    /\ ~Truthy(Head(results))
    /\ results' = Tail(results)
    /\ collected' = collected + 1
    /\ mpc' = IF collected + 1 = args.num_workers THEN "failed" ELSE "pool"
    /\ wk' = IF collected + 1 = args.num_workers THEN Terminate ELSE wk
    /\ UNCHANGED <<args, result, heap, outfile, writes, faults, trace>>

\* the next result is a task's exception: imap_unordered re-raises it in the
\* coordinator, which has no handler
CollectException ==
    /\ mpc = "pool"
    /\ results # <<>>
    /\ Head(results).kind = "exc"
    /\ mpc' = "raised"
    /\ results' = Tail(results)
    /\ collected' = collected + 1
    /\ wk' = Terminate
    /\ UNCHANGED <<args, result, heap, outfile, writes, faults, trace>>

----------------------------------------------------------------------------

Next ==
    \/ MainReject
    \/ MainStart
    \/ CollectSuccess
    \/ CollectNone
    \/ CollectException
    \/ \E w \in Workers :
        \/ WorkerStart(w)
        \/ LoadFail(w)
        \/ BeginAttempt(w)
        \/ SaveFail(w)
        \/ FinishSave(w)
        \/ ReadHash(w)
        \/ ReadFail(w)
        \/ BeginRestore(w)
        \/ RestoreFail(w)
        \/ FinishRestore(w)

Spec == Init /\ [][Next]_vars

----------------------------------------------------------------------------
(* Vocabulary of the properties *)

Prefix == args.target_prefix

OriginalHash == Digest(InputBytes)

Succeeded(w) == wk[w].pc = "success"

Exhausted(w) == wk[w].pc = "exhausted"

Raised(w) == wk[w].pc = "raised"

Started(w) == wk[w].pc # "idle"

\* the environment has failed no load, save or read
NoFailure == faults = 0

Similarities ==
    UNION { { hash_similarity(trace[w][i].digest, Prefix) :
                i \in { j \in 1 .. Len(trace[w]) : trace[w][j].decision # "error" } } :
            w \in Active }

\* (C1) A digest a task returns as matching, and the modified_hash the
\* coordinator reports, begins with the lower-cased target prefix; and every
\* digest a task computed that begins with the lower-cased prefix was
\* recognised as a match.
C1_MatchIsLowercasePrefix ==
    /\ \A w \in Active : \A i \in 1 .. Len(trace[w]) :
          /\ trace[w][i].decision = "match"
                => StartsWith(trace[w][i].digest, LowerStr(Prefix))
          /\ (trace[w][i].decision # "error"
              /\ StartsWith(trace[w][i].digest, LowerStr(Prefix)))
                => trace[w][i].decision = "match"
    /\ result.present => StartsWith(result.modified_hash, LowerStr(Prefix))

\* (C2) With no load, save or read failing and a non-empty prefix: when the coordinator has returned a success result with digest h, the
\* output path holds bytes that hash to h.
C2_OutputIsWinners ==
    (mpc = "returned" /\ NoFailure /\ Prefix # <<>>) =>
        /\ outfile \notin {AbsentBytes, PartialBytes}
        /\ Digest(outfile) = result.modified_hash

\* (C3) With no load, save or read failing: when the coordinator has failed after every task was exhausted, the
\* candidate left as the diagnostic (the restored output) has the highest
\* similarity any task observed, and that score is at most the prefix length.
C3_FailureCarriesBest ==
    (mpc = "failed" /\ NoFailure) =>
        /\ outfile \notin {AbsentBytes, PartialBytes}
        /\ hash_similarity(Digest(outfile), Prefix) <= Len(Prefix)
        /\ \A s \in Similarities : hash_similarity(Digest(outfile), Prefix) >= s

\* (C4) The coordinator has returned a success result only if a task ended in
\* Success, and the digest returned is that task's; it has failed only when
\* every task ended in Exhausted; and with no task raising, a finished
\* coordinator with a succeeding task has returned success.
C4_CoordinatorOutcome ==
    /\ mpc = "returned" =>
          /\ result.present
          /\ \E w \in Active : Succeeded(w) /\ result.modified_hash = wk[w].modified_hash
    /\ mpc = "failed" => ~result.present /\ \A w \in Active : Exhausted(w)
    /\ (mpc \in {"returned", "failed", "raised"}
        /\ (\A w \in Active : ~Raised(w))
        /\ (\E w \in Active : Succeeded(w)))
          => mpc = "returned"

\* the coordinator returned the second result after a first task was exhausted
C4_Witness ==
    /\ mpc = "returned"
    /\ \E v, w \in Active : Exhausted(v) /\ Succeeded(w) /\ result.modified_hash = wk[w].modified_hash

\* (C5) A target prefix that is empty or holds a non-hex character never
\* reaches the search: no task starts, nothing is mutated, the output path is
\* not written.
C5_InvalidPrefixRejected ==
    (Prefix = <<>> \/ ~ValidPrefix(Prefix)) =>
        /\ mpc \in {"main", "rejected"}
        /\ \A w \in Workers : ~Started(w)
        /\ outfile = AbsentBytes

\* (C6) With no load, save or read failing and a per-task budget of 0, no task mutates, each task's best is the
\* original, and the finished invocation has an outcome with changed == false.
C6_ZeroBudget ==
    (Budget = 0 /\ NoFailure) =>
        /\ \A w \in Active : trace[w] = <<>> /\ heap[w]["exif"] = NoComment
        /\ \A w \in Active : wk[w].pc \in {"loop", "restoring", "exhausted"}
              => wk[w].best_hash = wk[w].original_hash
        /\ mpc \in {"returned", "failed"} => result.present /\ ~result.is_modified

\* (C7) With no load, save or read failing: when the input's digest already begins with the (non-empty) target
\* prefix, no task mutates or writes, and the finished invocation has returned
\* success with final_hash == original_hash and changed == false.
C7_AlreadySatisfied ==
    (Prefix # <<>> /\ StartsWith(OriginalHash, Prefix) /\ NoFailure) =>
        /\ \A w \in Active : heap[w]["exif"] = NoComment
        /\ writes = 0
        /\ mpc # "failed"
        /\ mpc = "returned" => result.modified_hash = OriginalHash /\ ~result.is_modified

\* the decisions simulated_annealing_attempt takes when it runs alone, so that
\* every digest it reads back is the digest of the file it has just saved
RECURSIVE SoloFrom(_, _, _)
SoloFrom(st, h, tr) ==
    IF st.pc # "loop" \/ st.attempt >= Budget THEN tr
    ELSE LET s == RngNext(st.rng)
             c == AttemptComment(RandInt(s))
             h2 == [h EXCEPT ![st.exif_dict.Exif] = c]
             modified_hash == Digest(Serialize(h2, st.exif_dict))
             r == AfterHash(args.variant, Prefix, [st EXCEPT !.rng = s], h2, modified_hash)
         IN SoloFrom(r.st, r.heap,
                     Append(tr, [cand |-> c, digest |-> modified_hash, decision |-> r.decision]))

SoloTrace(seed) ==
    SoloFrom([IdleWorker EXCEPT !.pc = "loop",
                                !.rng = rng_seed(seed),
                                !.original_hash = OriginalHash,
                                !.best_hash = OriginalHash,
                                !.current_temp = args.initial_temp],
             [r \in DictRefs |-> NoComment], <<>>)

IsPrefixOf(a, b) == Len(a) <= Len(b) /\ SubSeq(b, 1, Len(a)) = a

\* (C8) With no load, save or read failing: the (candidate, digest, decision)
\* sequence a task has produced is the beginning of the sequence the same seed,
\* input and configuration produce when the task runs alone, whatever the
\* other tasks do.
C8_Deterministic ==
    NoFailure => \A w \in Active : IsPrefixOf(trace[w], SoloTrace(w))

\* (C9) An error raised inside a task never leaves the coordinator: the
\* coordinator never ends by propagating a task's exception, and once every
\* task has finished, a success among them has been returned.
C9_WorkerErrorContained ==
    /\ mpc # "raised"
    /\ ((\A w \in Active : ~Running(w)) /\ results = <<>> /\ (\E w \in Active : Succeeded(w)))
          => mpc = "returned"

\* (C10) The output path is written at most once, and only after the
\* coordinator has selected the winner or seen every task exhausted.
C10_SingleCommit ==
    /\ writes <= 1
    /\ outfile # AbsentBytes => mpc \in {"returned", "failed"}

\* (C11) With no load, save or read failing and a non-empty prefix: after one
\* task has ended in Success every other task begins at most one further
\* attempt, and no task is stopped in the middle of a write to the output path.
C11_BoundedCancellation ==
    (NoFailure /\ Prefix # <<>>) =>
        \A w \in Active :
            /\ wk[w].late <= 1
            /\ wk[w].killed_at \notin {"saving", "restoring"}

\* the attempts task w has begun: the iterations it finished and the one in progress
Attempts(w) ==
    Len(trace[w])
    + (IF wk[w].pc \in {"saving", "saved"} \/ wk[w].killed_at \in {"saving", "saved"}
       THEN 1 ELSE 0)

RECURSIVE SumAttempts(_)
SumAttempts(ws) ==
    IF ws = {} THEN 0
    ELSE LET w == CHOOSE x \in ws : TRUE IN Attempts(w) + SumAttempts(ws \ {w})

\* the attempt budget is kept: per task and over all tasks
AttemptsBounded ==
    /\ \A w \in Active : Attempts(w) <= Budget
    /\ SumAttempts(Active) <= args.max_attempts

\* (C12) With no load, save or read failing: every task begins at most
\* max_attempts // num_workers attempts, all tasks together at most
\* max_attempts, a task that has ended by itself has ended in Success or
\* Exhausted, and a finished coordinator has ended with the success result or
\* with the failure outcome.
C12_BudgetAndTermination ==
    NoFailure =>
        /\ AttemptsBounded
        /\ \A w \in Active : wk[w].pc \in {"success", "exhausted"} \/ Running(w)
                                \/ wk[w].pc = "killed"
        /\ mpc \in {"main", "rejected", "pool", "returned", "failed"}

\* the length of the longest common prefix of two strings, compared without case
CommonPrefixNoCase(h, p) ==
    CHOOSE k \in 0 .. Min(Len(h), Len(p)) :
        /\ \A i \in 1 .. k : Lower(h[i]) = Lower(p[i])
        /\ k < Min(Len(h), Len(p)) => Lower(h[k + 1]) # Lower(p[k + 1])

\* the digests on which a task called hash_similarity(modified_hash, target_prefix)
Scored(w) ==
    { trace[w][i].digest : i \in { j \in 1 .. Len(trace[w]) :
                                      trace[w][j].decision \in {"accept", "reject", "raise"} } }

\* (C13) hash_similarity is the case-insensitive longest-common-prefix length,
\* between 0 and the prefix length, on every (digest, target prefix) it is
\* called with; it is 4 for "2448a6" against "2448ff" and 6 against "2448a6".
C13_SimilarityIsCommonPrefix ==
    /\ hash_similarity(<<"2", "4", "4", "8", "f", "f">>, <<"2", "4", "4", "8", "a", "6">>) = 4
    /\ hash_similarity(<<"2", "4", "4", "8", "a", "6">>, <<"2", "4", "4", "8", "a", "6">>) = 6
    /\ \A w \in Active : \A d \in Scored(w) :
          /\ hash_similarity(d, Prefix) \in 0 .. Len(Prefix)
          /\ hash_similarity(d, Prefix) = CommonPrefixNoCase(d, Prefix)

\* the iterations of task w that accepted their proposal
Accepted(w) == { i \in 1 .. Len(trace[w]) : trace[w][i].decision = "accept" }

LastAccepted(w) == CHOOSE i \in Accepted(w) : \A j \in Accepted(w) : j <= i

\* the candidate and the digest task w last recorded as its best
BestCand(w) == IF Accepted(w) = {} THEN NoComment ELSE trace[w][LastAccepted(w)].cand

BestDigest(w) == IF Accepted(w) = {} THEN OriginalHash ELSE trace[w][LastAccepted(w)].digest

\* (C14) With no load, save or read failing: while a task is in its loop, and
\* when it is exhausted, best_hash is the digest it last accepted and
\* best_metadata holds the candidate accepted with that digest, whatever was
\* proposed since; and the candidate a single exhausted task has written as
\* the final output is that best candidate.
C14_BestPairConsistent ==
    NoFailure =>
        \A w \in Active :
            wk[w].pc \in {"loop", "saving", "saved", "restoring", "exhausted"} =>
                /\ wk[w].best_hash = BestDigest(w)
                /\ heap[w][wk[w].best_metadata.Exif] = BestCand(w)
                /\ (wk[w].pc = "exhausted" /\ args.num_workers = 1)
                      => outfile = Saved(BestCand(w))

\* (C15) With no load, save or read failing and a non-empty prefix: every
\* digest a task has computed, compared, accepted or returned is the digest of
\* the candidate that task itself saved in the same iteration.
C15_OwnDigest ==
    (NoFailure /\ Prefix # <<>>) =>
        \A w \in Active :
            /\ \A i \in 1 .. Len(trace[w]) :
                  trace[w][i].digest = Digest(Saved(trace[w][i].cand))
            /\ wk[w].pc = "success"
                  => wk[w].modified_hash = Digest(Serialize(heap[w], wk[w].exif_dict))

----------------------------------------------------------------------------

\* the loop iterations task w has finished without a match
NonSuccess(w) == { i \in 1 .. Len(trace[w]) : trace[w][i].decision # "match" }

\* (C16) The temperature is cooled exactly once per loop iteration that does
\* not end in success, an iteration that failed with an error included: a task
\* that is still in its loop, restoring, or exhausted has cooled as many times
\* as it has finished iterations without a match.
C16_CooledOncePerIteration ==
    \A w \in Active :
        wk[w].pc \in {"loop", "saving", "saved", "restoring", "exhausted"}
            => wk[w].cooled = Cardinality(NonSuccess(w))

\* (C17) With no load, save or read failing: for every initial temperature,
\* zero included, no task ever fails computing the acceptance probability.
C17_NoDivisionByZero ==
    NoFailure =>
        \A w \in Active :
            \A i \in 1 .. Len(trace[w]) : trace[w][i].decision # "raise"

----------------------------------------------------------------------------

\* the digest task w held as its best when it began iteration i
BestBefore(w, i) ==
    LET earlier == { j \in Accepted(w) : j < i }
    IN IF earlier = {} THEN wk[w].original_hash
       ELSE trace[w][CHOOSE j \in earlier : \A k \in earlier : k <= j].digest

\* the similarity the loop computes for a digest
Score(d) == hash_similarity(d, args.target_prefix)

\* the task has loaded the input and set up its search
Loaded(w) == wk[w].best_hash # NoHash

\* iteration i of task w accepted a digest that scores lower than its best
AcceptedWorse(w, i) ==
    /\ trace[w][i].decision = "accept"
    /\ Score(trace[w][i].digest) < Score(BestBefore(w, i))

============================================================================
